---- MODULE Spec2Model ----
(***************************************************************************)
(* UserProxyAgent (flaml/autogen/agent/user_proxy_agent.py): the turn       *)
(* controller receive(), the auto-reply dispatcher auto_reply(), function   *)
(* dispatch _execute_function() and the code-block loop _execute_code().    *)
(* One call of receive() is a sequence of steps; pc is the position of the  *)
(* single thread of control inside the call.  External collaborators (the   *)
(* operator typing at input(), extract_code, infer_lang, execute_code, the  *)
(* transport _send) are the environment: their answers are chosen with \E.  *)
(***************************************************************************)
EXTENDS Integers, Sequences, FiniteSets, TLC

VARIABLES
    human_input_mode,               \* self._human_input_mode
    max_consecutive_auto_reply,     \* self._max_consecutive_auto_reply
    counter,                        \* self._consecutive_auto_reply_counter
    use_docker,                     \* self._use_docker
    given_num,                      \* state of the registered class instance
    pc,                             \* position inside receive()
    turn,                           \* locals and observable effects of the current call
    handle_owner,                   \* history: the sender whose block returned self._use_docker
    parser                          \* the argument string given to _extract_args and its results

vars == <<human_input_mode, max_consecutive_auto_reply,
          counter, use_docker, given_num, pc, turn, handle_owner, parser>>

config == <<human_input_mode, max_consecutive_auto_reply>>

(***************************************************************************)
(* Bounds of the model.                                                     *)
(***************************************************************************)
\* largest max_consecutive_auto_reply a controller is configured with
MaxAutoReply == 1
\* receive() is not called for a sender whose counter has reached this value
CounterCap == 2
\* longest list of code blocks the extractor returns (specification Spec)
MaxTurnBlocks == 1
\* longest list of code blocks the extractor returns (specification SpecExec)
MaxBlocks == 2
\* largest value the registered AddNum instance accumulates
GivenNumCap == 20
\* longest argument string given to _extract_args (specification SpecParse)
MaxStrLen == 5

Senders == {"A", "B"}
Modes == {"ALWAYS", "TERMINATE", "NEVER"}

\* what the operator types at input()
HumanTexts == {"", "exit", "ok"}

\* the UNKNOWN sentinel of code_utils
UNKNOWN == "unknown"

(***************************************************************************)
(* Structured-argument parser: _format_json_str, json.loads, _extract_args. *)
(* A string is a sequence of characters (one-character strings).            *)
(***************************************************************************)
RECURSIVE format_scan(_, _, _, _, _)
format_scan(jstr, i, inside_quotes, last_char, result) ==
    IF i > Len(jstr) THEN result
    ELSE LET char == jstr[i]
             inside == IF last_char # "\\" /\ char = "\""
                       THEN ~inside_quotes ELSE inside_quotes
         IN  IF ~inside /\ char = "\n"
             THEN format_scan(jstr, i + 1, inside, char, result)
             ELSE LET c1 == IF inside /\ char = "\n" THEN <<"\\", "n">> ELSE <<char>>
                      c2 == IF inside /\ c1 = <<"\t">> THEN <<"\\", "t">> ELSE c1
                  IN  format_scan(jstr, i + 1, inside, char, result \o c2)

format_newlines_removed(jstr) == SelectSeq(jstr, LAMBDA c : c # "\n")

\* lines 148-176
_format_json_str(jstr) == format_scan(jstr, 1, FALSE, " ", <<>>)

\* JSON values: one record shape for every kind, so that values compare.
\*   num: n      str: s (decoded characters)      arr: items (values)
\*   obj: items (pairs, each a "pair" value: s the key, items <<value>>)
NumVal(n) == [t |-> "num", n |-> n, s |-> <<>>, items |-> <<>>]
StrVal(s) == [t |-> "str", n |-> 0, s |-> s, items |-> <<>>]
ArrVal(items) == [t |-> "arr", n |-> 0, s |-> <<>>, items |-> items]
ObjVal(pairs) == [t |-> "obj", n |-> 0, s |-> <<>>, items |-> pairs]
PairVal(k, v) == [t |-> "pair", n |-> 0, s |-> k, items |-> <<v>>]

JsonWhitespace == {" ", "\t", "\n"}
JsonControl == {"\t", "\n"}
JsonDigits == {"1", "5"}
DigitValue(c) == IF c = "1" THEN 1 ELSE 5
\* the escapes json accepts after a backslash, among the characters modelled
JsonEscapes == {"\"", "\\", "n", "t"}
Unescape(c) == IF c = "n" THEN "\n" ELSE IF c = "t" THEN "\t" ELSE c

JsonFail == [ok |-> FALSE, pos |-> 0, val |-> NumVal(0)]
JsonOk(pos, val) == [ok |-> TRUE, pos |-> pos, val |-> val]

RECURSIVE skip_ws(_, _)
skip_ws(s, i) == IF i <= Len(s) /\ s[i] \in JsonWhitespace THEN skip_ws(s, i + 1) ELSE i

\* i is the position after the opening quote
RECURSIVE scan_string(_, _, _)
scan_string(s, i, acc) ==
    IF i > Len(s) THEN JsonFail
    ELSE IF s[i] = "\"" THEN JsonOk(i + 1, StrVal(acc))
    ELSE IF s[i] = "\\"
         THEN IF i + 1 <= Len(s) /\ s[i + 1] \in JsonEscapes
              THEN scan_string(s, i + 2, Append(acc, Unescape(s[i + 1])))
              ELSE JsonFail
    ELSE IF s[i] \in JsonControl THEN JsonFail
    ELSE scan_string(s, i + 1, Append(acc, s[i]))

RECURSIVE scan_number(_, _, _)
scan_number(s, i, n) ==
    IF i <= Len(s) /\ s[i] \in JsonDigits
    THEN scan_number(s, i + 1, 10 * n + DigitValue(s[i]))
    ELSE JsonOk(i, NumVal(n))

RECURSIVE scan_value(_, _)
RECURSIVE scan_members(_, _, _)
RECURSIVE scan_elements(_, _, _)

\* i is the position of the first character of the value
scan_value(s, i) ==
    IF i > Len(s) THEN JsonFail
    ELSE IF s[i] = "\"" THEN scan_string(s, i + 1, <<>>)
    ELSE IF s[i] \in JsonDigits THEN scan_number(s, i, 0)
    ELSE IF s[i] = "{"
         THEN LET j == skip_ws(s, i + 1)
              IN  IF j <= Len(s) /\ s[j] = "}" THEN JsonOk(j + 1, ObjVal(<<>>))
                  ELSE scan_members(s, j, <<>>)
    ELSE IF s[i] = "["
         THEN LET j == skip_ws(s, i + 1)
              IN  IF j <= Len(s) /\ s[j] = "]" THEN JsonOk(j + 1, ArrVal(<<>>))
                  ELSE scan_elements(s, j, <<>>)
    ELSE JsonFail

\* i is where the next key's opening quote must be
scan_members(s, i, pairs) ==
    IF ~(i <= Len(s) /\ s[i] = "\"") THEN JsonFail
    ELSE LET k == scan_string(s, i + 1, <<>>)
         IN  IF ~k.ok THEN JsonFail
             ELSE LET c == skip_ws(s, k.pos)
                  IN  IF ~(c <= Len(s) /\ s[c] = ":") THEN JsonFail
                      ELSE LET v == scan_value(s, skip_ws(s, c + 1))
                           IN  IF ~v.ok THEN JsonFail
                               ELSE LET e == skip_ws(s, v.pos)
                                        ps == Append(pairs, PairVal(k.val.s, v.val))
                                    IN  IF e > Len(s) THEN JsonFail
                                        ELSE IF s[e] = "}" THEN JsonOk(e + 1, ObjVal(ps))
                                        ELSE IF s[e] = ","
                                             THEN scan_members(s, skip_ws(s, e + 1), ps)
                                        ELSE JsonFail

\* i is the position of the first character of the next element
scan_elements(s, i, items) ==
    LET v == scan_value(s, i)
    IN  IF ~v.ok THEN JsonFail
        ELSE LET e == skip_ws(s, v.pos)
                 vs == Append(items, v.val)
             IN  IF e > Len(s) THEN JsonFail
                 ELSE IF s[e] = "]" THEN JsonOk(e + 1, ArrVal(vs))
                 ELSE IF s[e] = "," THEN scan_elements(s, skip_ws(s, e + 1), vs)
                 ELSE JsonFail

\* json.loads: one value, whitespace around it, nothing after it
json_loads(s) ==
    LET v == scan_value(s, skip_ws(s, 1))
    IN  IF v.ok /\ skip_ws(s, v.pos) > Len(s) THEN v ELSE JsonFail

\* _extract_args: the parsed value, or the empty dict on JSONDecodeError
_extract_args(input_string) ==
    LET r == json_loads(_format_json_str(input_string))
    IN  IF r.ok THEN r.val ELSE ObjVal(<<>>)

\* a Python dict of a parsed object: a later pair of a key replaces an earlier one
RECURSIVE LastValue(_, _, _)
LastValue(pairs, k, i) ==
    IF pairs[i].s = k THEN pairs[i].items[1] ELSE LastValue(pairs, k, i - 1)

ToDict(v) ==
    LET keys == {v.items[i].s : i \in 1..Len(v.items)}
    IN  [k \in keys |-> LastValue(v.items, k, Len(v.items))]

(***************************************************************************)
(* Function registry and function dispatch (_execute_function).             *)
(* The registry of the docstring examples: a direct function                *)
(* add_num_func(n) = n + 10, the same with a statically bound argument, and *)
(* one AddNum instance registered with the method name "add" and without a  *)
(* method name.                                                             *)
(***************************************************************************)
KeyN == <<"n">>

function_map ==
    [f \in {"add", "add_bound", "add_num", "call_obj"} |->
        CASE f = "add"       -> [kind |-> "function", has_func_name |-> FALSE,
                                 func_name |-> "", args |-> ObjVal(<<>>)]
          [] f = "add_bound" -> [kind |-> "function", has_func_name |-> FALSE,
                                 func_name |-> "",
                                 args |-> ObjVal(<<PairVal(KeyN, NumVal(1))>>)]
          [] f = "add_num"   -> [kind |-> "class", has_func_name |-> TRUE,
                                 func_name |-> "add", args |-> ObjVal(<<>>)]
          [] f = "call_obj"  -> [kind |-> "class", has_func_name |-> FALSE,
                                 func_name |-> "", args |-> ObjVal(<<>>)]]

\* arguments.update(func_dict.get("args", {})): the bound values win
dict_update(arguments, static) ==
    [k \in DOMAIN arguments \cup DOMAIN static |->
        IF k \in DOMAIN static THEN static[k] ELSE arguments[k]]

\* func(**arguments) for a callable f(n): TypeError unless the keywords are
\* exactly {n} and n is a number
call_ok(arguments) == DOMAIN arguments = {KeyN} /\ arguments[KeyN].t = "num"

\* the callable picked at lines 214-218: "getattr_error" when getattr is given
\* None as the attribute name
resolve_func(func_dict) ==
    IF func_dict.kind = "class"
    THEN IF func_dict.has_func_name THEN "method" ELSE "getattr_error"
    ELSE "function"

FnRaise(exc, gn) ==
    [raised |-> TRUE, exc |-> exc, is_exec_success |-> FALSE,
     result |-> [name |-> "", role |-> "", content |-> <<>>], given_num |-> gn]

FnReturn(flag, name, content, gn) ==
    [raised |-> FALSE, exc |-> "", is_exec_success |-> flag,
     result |-> [name |-> name, role |-> "function", content |-> content],
     given_num |-> gn]

\* gn is the given_num of the registered AddNum instance before the call
_execute_function(func_call, gn) ==
    LET func_name == func_call.name
    IN  IF func_name \notin DOMAIN function_map
        THEN FnReturn(FALSE, func_name, <<"Error: Function ", func_name, " not found.">>, gn)
        ELSE LET func_dict == function_map[func_name]
                 parsed == _extract_args(func_call.arguments)
             IN  IF parsed.t # "obj"
                 THEN FnRaise("AttributeError: no attribute 'update'", gn)
                 ELSE LET arguments == dict_update(ToDict(parsed), ToDict(func_dict.args))
                          func == resolve_func(func_dict)
                      IN  IF func = "getattr_error"
                          THEN FnReturn(FALSE, func_name,
                                        <<"Error: ", "attribute name must be string">>, gn)
                          ELSE IF ~call_ok(arguments)
                          THEN FnReturn(FALSE, func_name,
                                        <<"Error: ", "TypeError in call">>, gn)
                          ELSE IF func = "method"
                          THEN FnReturn(TRUE, func_name,
                                        <<ToString(gn + arguments[KeyN].n)>>,
                                        gn + arguments[KeyN].n)
                          ELSE FnReturn(TRUE, func_name,
                                        <<ToString(arguments[KeyN].n + 10)>>, gn)

(***************************************************************************)
(* Messages, code blocks and the answers of the external collaborators.     *)
(***************************************************************************)
Q == "\""
ArgsObject == <<"{", "\n", Q, "n", Q, ":", " ", "5", "}">>
ArgsTruncated == <<"{", Q, "n", Q, ":">>
ArgsArray == <<"[", "1", "]">>

NoCall == [name |-> "", arguments |-> <<>>]
FuncCalls ==
    {[name |-> "add", arguments |-> ArgsObject],
     [name |-> "add", arguments |-> ArgsTruncated],
     [name |-> "add", arguments |-> ArgsArray],
     [name |-> "add_bound", arguments |-> ArgsTruncated],
     [name |-> "add_num", arguments |-> ArgsObject],
     [name |-> "call_obj", arguments |-> ArgsObject],
     [name |-> "missing", arguments |-> ArgsObject]}

CodeText == "<code>"

\* what receive() is called with: a bare string or a dict
CodeMessage ==
    [bare |-> FALSE, content |-> CodeText, role |-> "assistant", has_fc |-> FALSE,
     function_call |-> NoCall]
Inbound ==
    {[bare |-> TRUE, content |-> c, role |-> "", has_fc |-> FALSE, function_call |-> NoCall] :
        c \in {"TERMINATE", "hello"}}
    \cup {CodeMessage}
    \cup {[bare |-> FALSE, content |-> CodeText, role |-> "assistant", has_fc |-> TRUE,
           function_call |-> fc] : fc \in FuncCalls}
    \cup {[bare |-> FALSE, content |-> "TERMINATE", role |-> "assistant", has_fc |-> TRUE,
           function_call |-> [name |-> "add", arguments |-> ArgsObject]]}

NoMessage == [content |-> "", role |-> "", has_fc |-> FALSE, function_call |-> NoCall]

\* lines 255-256: a bare string becomes {"content": message, "role": "user"}
normalize(message) ==
    IF message.bare
    THEN [content |-> message.content, role |-> "user", has_fc |-> FALSE,
          function_call |-> NoCall]
    ELSE [content |-> message.content, role |-> message.role, has_fc |-> message.has_fc,
          function_call |-> message.function_call]

\* lines 93-97: the default termination predicate, applied to a normalized message
is_termination_msg(message) == message.content = "TERMINATE"

FilenameCode == "# filename: t.py\nprint(1)"
Blocks ==
    {[lang |-> "python", code |-> FilenameCode],
     [lang |-> "sh", code |-> "ls"],
     [lang |-> "", code |-> "x = 1"],
     [lang |-> "javascript", code |-> "console.log(1)"]}

BlockSeqs(maxlen) == UNION {[1..n -> Blocks] : n \in 0..maxlen}

\* extract_code(content): the sentinel when no fenced block is found
Sentinel(content) == <<[lang |-> UNKNOWN, code |-> content]>>
Extractions(content, maxlen) ==
    IF content = CodeText THEN BlockSeqs(maxlen) \cup {Sentinel(content)}
    ELSE {Sentinel(content)}

\* infer_lang(code)
InferLangs == {"python", UNKNOWN}

\* execute_code(...) -> (exitcode, logs as bytes, image)
ExecResults ==
    {[exitcode |-> 0, logs |-> [bytes |-> <<"out1">>], image |-> "img1"],
     [exitcode |-> 0, logs |-> [bytes |-> <<"out2">>], image |-> "img2"],
     [exitcode |-> 2, logs |-> [bytes |-> <<"err">>], image |-> "img2"]}

\* logs.decode("utf-8")
decode(logs) == logs.bytes

\* lines 130-133
filename_of(code) == IF code = FilenameCode THEN "t.py" ELSE "None"

NoTurn ==
    [sender |-> "", message |-> NoMessage, counter0 |-> 0,
     prompts |-> 0, human |-> "", reply |-> "",
     code_blocks |-> <<>>, i |-> 0, logs_all |-> <<>>,
     exitcode |-> 0, has_exitcode |-> FALSE,
     calls |-> <<>>, events |-> <<>>, sent |-> <<>>,
     outcome |-> "", exc |-> ""]

\* no argument string is being parsed
NoParse == [stage |-> "none", jstr |-> <<>>, formatted |-> <<>>,
            decoded |-> FALSE, args |-> ObjVal(<<>>)]

NoFn == [name |-> "", role |-> "", content |-> <<>>]
NoExec == [exitcode |-> 0, exitcode2str |-> "", logs |-> <<>>]
TextMsg(to, text) == [to |-> to, kind |-> "text", text |-> text, fn |-> NoFn, exec |-> NoExec]
FnMsg(to, fn) == [to |-> to, kind |-> "function", text |-> "", fn |-> fn, exec |-> NoExec]
ExecMsg(to, ex) == [to |-> to, kind |-> "exec", text |-> "", fn |-> NoFn, exec |-> ex]

\* lines 247-248: the formatted result text, exitcode2str chosen by the exit code
format_result(exitcode, logs) ==
    [exitcode |-> exitcode,
     exitcode2str |-> IF exitcode = 0 THEN "execution succeeded" ELSE "execution failed",
     logs |-> logs]

(***************************************************************************)
(* The turn controller: receive().                                          *)
(***************************************************************************)
Init ==
    /\ human_input_mode \in Modes
    /\ max_consecutive_auto_reply \in 0..MaxAutoReply
    /\ counter = [s \in Senders |-> 0]
    /\ use_docker = "True"
    /\ given_num = 10
    /\ pc = "idle"
    /\ turn = NoTurn
    /\ handle_owner = ""
    /\ parser = NoParse

limit_or_termination_strict(count, message) ==
    count > max_consecutive_auto_reply \/ is_termination_msg(message)

\* lines 264-266: the counter-or-termination condition
limit_or_termination(count, message) ==
    count >= max_consecutive_auto_reply \/ is_termination_msg(message)

entry_path_always_as_terminate(mode, count, message) ==
    IF limit_or_termination(count, message)
    THEN IF mode = "NEVER" THEN "exit" ELSE "input"
    ELSE "skip"

entry_path_terminate_on_message_only(mode, count, message) ==
    IF mode = "ALWAYS" THEN "input"
    ELSE IF is_termination_msg(message)
         THEN IF mode = "TERMINATE" THEN "input" ELSE "exit"
         ELSE "skip"

\* lines 260-274: whether receive() asks the operator ("input"), sets reply to
\* "exit" without asking ("exit"), or leaves reply empty ("skip")
entry_path(mode, count, message) ==
    IF mode = "ALWAYS" THEN "input"
    ELSE IF limit_or_termination(count, message)
         THEN IF mode = "TERMINATE" THEN "input" ELSE "exit"
         ELSE "skip"

\* lines 250-274 up to the first input(): the entry of receive()
Receive(message, sender) ==
    /\ pc = "idle"
    /\ counter[sender] < CounterCap
    /\ message.has_fc =>
           _execute_function(message.function_call, given_num).given_num <= GivenNumCap
    /\ LET m == normalize(message)
           t0 == [NoTurn EXCEPT !.sender = sender, !.message = m,
                                !.counter0 = counter[sender],
                                !.events = <<"base_receive">>]
           path == entry_path(human_input_mode, counter[sender], m)
       IN  IF path = "input"
           THEN pc' = "input" /\ turn' = t0
           ELSE IF path = "exit"
                THEN pc' = "decide" /\ turn' = [t0 EXCEPT !.reply = "exit"]
                ELSE pc' = "decide" /\ turn' = t0
    /\ UNCHANGED <<config, counter, use_docker, given_num, handle_owner, parser>>

\* lines 261 and 268-271: what reply becomes once the operator has typed text
reply_of_input(mode, text) ==
    IF mode = "ALWAYS" THEN text ELSE IF text # "" THEN text ELSE "exit"

\* the blocking input() call returns
HumanInput(text) ==
    /\ pc = "input"
    /\ turn' = [turn EXCEPT !.prompts = @ + 1, !.human = text,
                            !.reply = reply_of_input(human_input_mode, text),
                            !.events = Append(@, "input")]
    /\ pc' = "decide"
    /\ UNCHANGED <<config, counter, use_docker, given_num, handle_owner, parser>>

stop_condition_exit_only(reply, message) == reply = "exit"

\* line 275
stop_condition(reply, message) == reply = "exit" \/ (is_termination_msg(message) /\ reply = "")

set_counter_of_all(count, sender, value) == [s \in DOMAIN count |-> value]

\* lines 277, 281, 285: self._consecutive_auto_reply_counter[sender.name] = value
set_counter(count, sender, value) == [count EXCEPT ![sender] = value]

increment_forgotten(count) == count

\* line 285
increment(count) == count + 1

\* lines 275-286: stop, send the human reply, or count and go on to auto_reply
Decide ==
    /\ pc = "decide"
    /\ IF stop_condition(turn.reply, turn.message)
       THEN /\ counter' = set_counter(counter, turn.sender, 0)
            /\ turn' = [turn EXCEPT !.events = Append(@, "reset"), !.outcome = "stop"]
            /\ pc' = "idle"
       ELSE IF turn.reply # ""
       THEN /\ counter' = set_counter(counter, turn.sender, 0)
            /\ turn' = [turn EXCEPT !.events = @ \o <<"reset", "_send">>,
                                    !.sent = Append(@, TextMsg(turn.sender, turn.reply)),
                                    !.outcome = "human"]
            /\ pc' = "idle"
       ELSE /\ counter' = set_counter(counter, turn.sender, increment(counter[turn.sender]))
            /\ turn' = [turn EXCEPT !.events = Append(@, "increment")]
            /\ pc' = "auto_reply"
    /\ UNCHANGED <<config, use_docker, given_num, handle_owner, parser>>

(***************************************************************************)
(* The action dispatcher: auto_reply() and the loop of _execute_code().     *)
(***************************************************************************)
\* lines 235-238: the function-call path
AutoReplyFunction ==
    /\ pc = "auto_reply"
    /\ turn.message.has_fc
    /\ LET r == _execute_function(turn.message.function_call, given_num)
       IN  /\ given_num' = r.given_num
           /\ IF r.raised
              THEN turn' = [turn EXCEPT !.events = @ \o <<"_execute_function", "raise">>,
                                        !.outcome = "raised", !.exc = r.exc]
              ELSE turn' = [turn EXCEPT !.events = @ \o <<"_execute_function", "_send">>,
                                        !.sent = Append(@, FnMsg(turn.sender, r.result)),
                                        !.outcome = "function"]
    /\ pc' = "idle"
    /\ UNCHANGED <<config, counter, use_docker, handle_owner, parser>>

no_code_found_never(code_blocks) == FALSE

\* line 241
no_code_found(code_blocks) == Len(code_blocks) = 1 /\ code_blocks[1].lang = UNKNOWN

\* lines 240-246: extract the code blocks; send default_reply or enter _execute_code
AutoReplyExtract(code_blocks) ==
    /\ pc = "auto_reply"
    /\ ~turn.message.has_fc
    /\ IF no_code_found(code_blocks)
       THEN /\ turn' = [turn EXCEPT !.events = @ \o <<"extract_code", "_send">>,
                                    !.code_blocks = code_blocks,
                                    !.sent = Append(@, TextMsg(turn.sender, turn.reply)),
                                    !.outcome = "default"]
            /\ pc' = "idle"
       ELSE /\ turn' = [turn EXCEPT !.events = Append(@, "extract_code"),
                                    !.code_blocks = code_blocks, !.i = 1]
            /\ pc' = "exec"
    /\ UNCHANGED <<config, counter, use_docker, given_num, handle_owner, parser>>

\* lines 247-248 after _execute_code has returned
send_result(t, exitcode, logs) ==
    [t EXCEPT !.events = Append(@, "_send"),
              !.sent = Append(@, ExecMsg(t.sender, format_result(exitcode, logs))),
              !.outcome = "code"]

loop_never_returns_early(exitcode) == FALSE

\* lines 144-145: the early return of the loop
loop_returns(exitcode) == exitcode # 0

store_image_dropped(stored, image) == stored

\* line 142: self._use_docker = image
store_image(stored, image) == image

\* lines 119, 129, 138: which branch a language takes
lang_branch(lang) ==
    IF lang \in {"bash", "shell", "sh"} THEN "shell"
    ELSE IF lang = "python" THEN "python"
    ELSE "other"

\* lines 115-145: one iteration of the loop; inferred is what infer_lang answers
\* for a block without a language, r what execute_code answers
ExecuteCodeBlock(inferred, r) ==
    /\ pc = "exec"
    /\ turn.i <= Len(turn.code_blocks)
    /\ LET code_block == turn.code_blocks[turn.i]
           code == code_block.code
           lang == IF code_block.lang = "" THEN inferred ELSE code_block.lang
       IN  IF lang_branch(lang) = "other"
           THEN \* line 140: two values unpacked into three names
                /\ turn' = [turn EXCEPT !.events = Append(@, "raise"),
                                        !.outcome = "raised",
                                        !.exc = "ValueError: not enough values to unpack"]
                /\ pc' = "idle"
                /\ UNCHANGED <<use_docker, handle_owner>>
           ELSE LET call == [index |-> turn.i, code |-> code,
                             lang |-> IF lang_branch(lang) = "shell" THEN lang ELSE "python",
                             filename |-> IF lang_branch(lang) = "python"
                                          THEN filename_of(code) ELSE "None",
                             use_docker |-> use_docker,
                             exitcode |-> r.exitcode, logs |-> decode(r.logs),
                             image |-> r.image]
                    logs_all == turn.logs_all \o <<"\n">> \o decode(r.logs)
                    t1 == [turn EXCEPT !.events = Append(@, "execute_code"),
                                       !.calls = Append(@, call),
                                       !.logs_all = logs_all,
                                       !.exitcode = r.exitcode, !.has_exitcode = TRUE]
                IN  /\ use_docker' = store_image(use_docker, r.image)
                    /\ handle_owner' = turn.sender
                    /\ IF loop_returns(r.exitcode)
                       THEN /\ turn' = send_result(t1, r.exitcode, logs_all)
                            /\ pc' = "idle"
                       ELSE /\ turn' = [t1 EXCEPT !.i = @ + 1]
                            /\ pc' = "exec"
    /\ UNCHANGED <<config, counter, given_num, parser>>

\* line 146: the loop has run out of blocks
ExecuteCodeReturn ==
    /\ pc = "exec"
    /\ turn.i > Len(turn.code_blocks)
    /\ IF turn.has_exitcode
       THEN turn' = send_result(turn, turn.exitcode, turn.logs_all)
       ELSE turn' = [turn EXCEPT !.events = Append(@, "raise"),
                                 !.outcome = "raised",
                                 !.exc = "UnboundLocalError: exitcode"]
    /\ pc' = "idle"
    /\ UNCHANGED <<config, counter, use_docker, given_num, handle_owner, parser>>

Next ==
    \/ \E message \in Inbound, sender \in Senders : Receive(message, sender)
    \/ \E text \in HumanTexts : HumanInput(text)
    \/ Decide
    \/ AutoReplyFunction
    \/ \E code_blocks \in Extractions(turn.message.content, MaxTurnBlocks) :
           AutoReplyExtract(code_blocks)
    \/ \E inferred \in InferLangs, r \in ExecResults : ExecuteCodeBlock(inferred, r)
    \/ ExecuteCodeReturn

Spec == Init /\ [][Next]_vars

(***************************************************************************)
(* SpecExec: a controller in mode NEVER that is sent messages with code     *)
(* only, with longer block lists.                                           *)
(***************************************************************************)
InitExec ==
    /\ human_input_mode = "NEVER"
    /\ max_consecutive_auto_reply = MaxAutoReply
    /\ counter = [s \in Senders |-> 0]
    /\ use_docker = "True"
    /\ given_num = 10
    /\ pc = "idle"
    /\ turn = NoTurn
    /\ handle_owner = ""
    /\ parser = NoParse

NextExec ==
    \/ \E sender \in Senders : Receive(CodeMessage, sender)
    \/ Decide
    \/ \E code_blocks \in Extractions(turn.message.content, MaxBlocks) :
           AutoReplyExtract(code_blocks)
    \/ \E inferred \in InferLangs, r \in ExecResults : ExecuteCodeBlock(inferred, r)
    \/ ExecuteCodeReturn

SpecExec == InitExec /\ [][NextExec]_vars

(***************************************************************************)
(* SpecParse: _extract_args applied to every string of at most MaxStrLen    *)
(* characters over a quote, a backslash, a newline, a tab and a digit.      *)
(***************************************************************************)
ParseChars == {Q, "\\", "\n", "\t", "1"}
Strings(maxlen) == UNION {[1..k -> ParseChars] : k \in 0..maxlen}

InitParse ==
    /\ human_input_mode = "NEVER"
    /\ max_consecutive_auto_reply = MaxAutoReply
    /\ counter = [s \in Senders |-> 0]
    /\ use_docker = "True"
    /\ given_num = 10
    /\ pc = "idle"
    /\ turn = NoTurn
    /\ handle_owner = ""
    /\ parser \in {[NoParse EXCEPT !.stage = "input", !.jstr = x] : x \in Strings(MaxStrLen)}

\* line 188: input_string = self._format_json_str(input_string)
FormatArgs ==
    /\ parser.stage = "input"
    /\ parser' = [parser EXCEPT !.stage = "formatted",
                                !.formatted = _format_json_str(parser.jstr)]
    /\ UNCHANGED <<config, counter, use_docker, given_num, pc, turn, handle_owner>>

\* lines 189-192: json.loads, and the empty dict on JSONDecodeError
LoadArgs ==
    /\ parser.stage = "formatted"
    /\ LET r == json_loads(parser.formatted)
       IN  parser' = [parser EXCEPT !.stage = "parsed", !.decoded = r.ok,
                                    !.args = IF r.ok THEN r.val ELSE ObjVal(<<>>)]
    /\ UNCHANGED <<config, counter, use_docker, given_num, pc, turn, handle_owner>>

NextParse == FormatArgs \/ LoadArgs

SpecParse == InitParse /\ [][NextParse]_vars

(***************************************************************************)
(* Properties.                                                              *)
(***************************************************************************)
Started == turn.sender # ""
Completed == pc = "idle" /\ Started
Term == is_termination_msg(turn.message)
\* the counter had reached the maximum, or the message is a termination message
LimitOrTerm == turn.counter0 >= max_consecutive_auto_reply \/ Term
\* what the operator typed; the empty text when the operator was not asked
HumanText == IF turn.prompts > 0 THEN turn.human ELSE ""
\* no reply text and no stop condition
AutoPath == turn.reply = "" /\ ~Term
AutoLogic == {"_execute_function", "extract_code", "execute_code", "_send"}
AutoOutcomes == {"function", "code", "default", "raised"}

Count(events, e) == Cardinality({i \in DOMAIN events : events[i] = e})
\* every event of the set later comes after an event e
Before(events, e, later) ==
    \A i \in DOMAIN events :
        events[i] \in later => \E j \in 1..(i - 1) : events[j] = e

\* C1: on the fully-automatic path the sender's counter is increased by exactly 1
\* before auto-reply generation is invoked and before anything is sent; on every
\* other turn it is not increased; it is never negative and is 0 before any call.
C1_CounterIncrement ==
    /\ \A s \in Senders : counter[s] \in Nat
    /\ ~Started => \A s \in Senders : counter[s] = 0
    /\ Started =>
        /\ pc \in {"input", "decide"} =>
              /\ counter[turn.sender] = turn.counter0
              /\ Count(turn.events, "increment") = 0
        /\ pc \in {"auto_reply", "exec"} =>
              /\ AutoPath
              /\ counter[turn.sender] = turn.counter0 + 1
        /\ pc = "auto_reply" =>
              /\ turn.sent = <<>>
              /\ turn.events \in {<<"base_receive", "increment">>,
                                  <<"base_receive", "input", "increment">>}
        /\ pc = "idle" =>
              IF AutoPath
              THEN /\ counter[turn.sender] = turn.counter0 + 1
                   /\ Count(turn.events, "increment") = 1
              ELSE /\ counter[turn.sender] <= turn.counter0
                   /\ Count(turn.events, "increment") = 0
        /\ Before(turn.events, "increment", {"_execute_function", "extract_code", "execute_code"})
        /\ AutoPath => Before(turn.events, "increment", AutoLogic)

C1_Witness ==
    /\ pc = "auto_reply"
    /\ turn.counter0 >= 1
    /\ counter[turn.sender] = turn.counter0 + 1
    /\ turn.sent = <<>>

\* C2 as stated: after a call the sender's counter is 0 exactly when the human reply
\* is "exit", the human reply is non-empty text, or the termination predicate holds
\* and no human reply was given; otherwise it has not decreased.
C2_ResetExactlyOnListedEvents ==
    Completed =>
        /\ counter[turn.sender] = 0 <=>
              \/ HumanText = "exit"
              \/ HumanText # ""
              \/ Term /\ HumanText = ""
        /\ counter[turn.sender] # 0 => counter[turn.sender] >= turn.counter0

\* C2 amended: the counter is also reset when, in mode TERMINATE or NEVER, it had
\* reached the configured maximum when the message arrived; on every other turn (a
\* fully-automatic turn) it grows by one.
C2_ResetEvents ==
    Completed =>
        /\ counter[turn.sender] = 0 <=>
              \/ HumanText = "exit"
              \/ HumanText # ""
              \/ Term /\ HumanText = ""
              \/ /\ human_input_mode \in {"TERMINATE", "NEVER"}
                 /\ turn.counter0 >= max_consecutive_auto_reply
        /\ counter[turn.sender] # 0 => counter[turn.sender] = turn.counter0 + 1

C2_Witness ==
    /\ Completed
    /\ human_input_mode = "TERMINATE"
    /\ turn.prompts = 1 /\ turn.human = "" /\ ~Term
    /\ turn.counter0 >= 1
    /\ counter[turn.sender] = 0

\* C3: in mode ALWAYS every call of receive asks the operator exactly once, whatever
\* the counter and the termination predicate, and before any auto-reply logic runs.
C3_AlwaysSolicitsOnce ==
    (human_input_mode = "ALWAYS" /\ Started) =>
        /\ turn.prompts = IF pc = "input" THEN 0 ELSE 1
        /\ Count(turn.events, "input") = turn.prompts
        /\ pc = "input" => turn.events = <<"base_receive">>
        /\ Before(turn.events, "input", AutoLogic \cup {"increment", "reset"})

C3_Witness ==
    /\ human_input_mode = "ALWAYS"
    /\ Completed
    /\ turn.counter0 > max_consecutive_auto_reply
    /\ turn.prompts = 1
    /\ turn.outcome = "code"

\* C4: in mode TERMINATE a call asks the operator if and only if the sender's counter
\* has reached the maximum or the message is a termination message; otherwise it asks
\* nothing and goes straight to auto-reply generation with the counter incremented.
C4_TerminateSolicitsAtLimit ==
    (human_input_mode = "TERMINATE" /\ Started) =>
        /\ pc = "input" => LimitOrTerm
        /\ pc # "input" => turn.prompts = IF LimitOrTerm THEN 1 ELSE 0
        /\ (~LimitOrTerm /\ pc = "decide") =>
              turn.reply = "" /\ turn.events = <<"base_receive">>
        /\ (~LimitOrTerm /\ pc \in {"auto_reply", "exec", "idle"}) =>
              /\ counter[turn.sender] = turn.counter0 + 1
              /\ turn.events[2] = "increment"
              /\ turn.outcome \notin {"stop", "human"}

C4_Witness ==
    /\ human_input_mode = "TERMINATE"
    /\ pc = "input"
    /\ max_consecutive_auto_reply >= 1
    /\ turn.counter0 = max_consecutive_auto_reply
    /\ ~Term

\* C5: in mode NEVER no call asks the operator; when the counter has reached the
\* maximum or the message is a termination message the turn sends nothing, runs no
\* auto-reply logic and leaves the sender's counter at 0.
C5_NeverSolicits ==
    (human_input_mode = "NEVER" /\ Started) =>
        /\ turn.prompts = 0
        /\ pc # "input"
        /\ Count(turn.events, "input") = 0
        /\ LimitOrTerm =>
              /\ pc \in {"decide", "idle"}
              /\ turn.sent = <<>>
              /\ \A i \in DOMAIN turn.events : turn.events[i] \in {"base_receive", "reset"}
              /\ pc = "idle" => counter[turn.sender] = 0 /\ turn.outcome = "stop"

C5_Witness ==
    /\ human_input_mode = "NEVER"
    /\ Completed
    /\ max_consecutive_auto_reply >= 1
    /\ turn.counter0 = max_consecutive_auto_reply
    /\ ~Term
    /\ turn.outcome = "stop"
    /\ counter[turn.sender] = 0

\* C6: in modes TERMINATE and NEVER every sender's counter is at most the configured
\* maximum in every state; in mode ALWAYS the outcome of a turn is decided by the
\* operator's text and the termination predicate alone.
C6_CounterAtMostMax ==
    /\ human_input_mode \in {"TERMINATE", "NEVER"} =>
          \A s \in Senders : counter[s] <= max_consecutive_auto_reply
    /\ (human_input_mode = "ALWAYS" /\ Completed) =>
          /\ turn.outcome = "stop" <=> (turn.human = "exit" \/ (Term /\ turn.human = ""))
          /\ turn.outcome = "human" <=> turn.human \notin {"", "exit"}
          /\ turn.outcome \in AutoOutcomes <=> (turn.human = "" /\ ~Term)

C6_Witness ==
    /\ human_input_mode \in {"TERMINATE", "NEVER"}
    /\ max_consecutive_auto_reply >= 1
    /\ \A s \in Senders : counter[s] = max_consecutive_auto_reply
    /\ Completed
    /\ turn.outcome \in AutoOutcomes

\* C7: every call of receive ends in exactly one of: stop with nothing sent, the human
\* reply sent verbatim, a function result sent, a code-execution result sent, the
\* default reply sent; at most one message is sent, none when the turn stops.
C7_ExactlyOneOutcome ==
    Completed =>
        /\ turn.outcome \in {"stop", "human", "function", "code", "default"}
        /\ Len(turn.sent) <= 1
        /\ turn.outcome = "stop" => turn.sent = <<>>
        /\ turn.outcome = "human" => turn.sent = <<TextMsg(turn.sender, turn.human)>>
        /\ turn.outcome = "default" => turn.sent = <<TextMsg(turn.sender, "")>>
        /\ turn.outcome = "function" => Len(turn.sent) = 1 /\ turn.sent[1].kind = "function"
        /\ turn.outcome = "code" => Len(turn.sent) = 1 /\ turn.sent[1].kind = "exec"

\* C8: when auto_reply is given a message with a function_call it sends the function
\* result to the sender, and it neither extracts nor executes code blocks.
C8_FunctionCallResultSent ==
    (Completed /\ turn.message.has_fc /\ Count(turn.events, "increment") = 1) =>
        /\ Len(turn.sent) = 1
        /\ turn.sent[1].kind = "function"
        /\ turn.sent[1].to = turn.sender
        /\ turn.sent[1].fn.role = "function"
        /\ turn.sent[1].fn.name = turn.message.function_call.name
        /\ Count(turn.events, "extract_code") = 0
        /\ Count(turn.events, "execute_code") = 0

\* C9: _execute_function never raises: it returns a flag and a result with role
\* "function"; an unregistered name gives flag false and "Error: Function <name> not
\* found."; a failure resolving or invoking the callable gives flag false and
\* "Error: <message>"; the flag is true only when the callable returned.
C9_DispatchNeverRaises ==
    \A fc \in FuncCalls :
        LET r == _execute_function(fc, given_num)
        IN  /\ ~r.raised
            /\ r.result.role = "function"
            /\ r.result.name = fc.name
            /\ fc.name \notin DOMAIN function_map =>
                  /\ ~r.is_exec_success
                  /\ r.result.content = <<"Error: Function ", fc.name, " not found.">>
            /\ ~r.is_exec_success => r.result.content[1] \in {"Error: ", "Error: Function "}
            /\ r.is_exec_success => fc.name \in DOMAIN function_map

RECURSIVE AggregateLogs(_, _)
AggregateLogs(calls, n) ==
    IF n = 0 THEN <<>> ELSE AggregateLogs(calls, n - 1) \o <<"\n">> \o calls[n].logs

\* C10: the blocks are passed to the execution service in order, one at a time; a
\* block is passed only after every earlier block exited 0; the first non-zero exit
\* code ends the call at once, and the exit code and log reported are that block's
\* exit code and the logs of the blocks up to and including it; when every block
\* exits 0 all blocks are executed and exit code 0 is reported with all the logs.
C10_ShortCircuit ==
    (Started /\ pc \in {"exec", "idle"}) =>
        LET n == Len(turn.calls)
            blocks == turn.code_blocks
        IN  /\ n <= Len(blocks)
            /\ \A k \in 1..n : turn.calls[k].index = k /\ turn.calls[k].code = blocks[k].code
            /\ \A k \in 1..(n - 1) : turn.calls[k].exitcode = 0
            /\ turn.logs_all = AggregateLogs(turn.calls, n)
            /\ (n >= 1 /\ turn.calls[n].exitcode # 0) =>
                  /\ pc = "idle"
                  /\ turn.sent = <<ExecMsg(turn.sender,
                                     [exitcode |-> turn.calls[n].exitcode,
                                      exitcode2str |-> "execution failed",
                                      logs |-> AggregateLogs(turn.calls, n)])>>
            /\ (pc = "idle" /\ n >= 1 /\ n = Len(blocks) /\ turn.calls[n].exitcode = 0) =>
                  turn.sent = <<ExecMsg(turn.sender,
                                  [exitcode |-> 0,
                                   exitcode2str |-> "execution succeeded",
                                   logs |-> AggregateLogs(turn.calls, n)])>>
            /\ (pc = "idle" /\ turn.outcome = "code" /\ turn.calls[n].exitcode = 0) =>
                  n = Len(blocks)

C10_Witness ==
    /\ Completed
    /\ Len(turn.code_blocks) = 2
    /\ Len(turn.calls) = 1
    /\ turn.calls[1].exitcode # 0
    /\ turn.outcome = "code"

\* the list of blocks went into _execute_code (it is not the no-code sentinel)
InLoop == Started /\ pc \in {"exec", "idle"} /\ Count(turn.events, "extract_code") = 1
              /\ ~(Len(turn.code_blocks) = 1 /\ turn.code_blocks[1].lang = UNKNOWN)
\* every block passed to the execution service so far exited 0
AllZero == \A k \in DOMAIN turn.calls : turn.calls[k].exitcode = 0

\* C11: a block tagged with a language that is neither shell nor python is not passed
\* to the execution service; it yields a failed result with exit code 1, which is sent
\* to the sender as an ordinary formatted execution result, and no error propagates.
C11_UnknownLanguageReported ==
    LET n == Len(turn.calls)
    IN  (/\ InLoop /\ pc = "idle" /\ AllZero
         /\ n < Len(turn.code_blocks)
         /\ turn.code_blocks[n + 1].lang # ""
         /\ lang_branch(turn.code_blocks[n + 1].lang) = "other") =>
            /\ turn.outcome = "code"
            /\ Len(turn.sent) = 1
            /\ turn.sent[1].kind = "exec"
            /\ turn.sent[1].exec.exitcode = 1
            /\ turn.sent[1].exec.exitcode2str = "execution failed"

\* C12: when the message has no function_call and the extractor returns exactly one
\* block whose language is the unknown sentinel, auto_reply sends exactly default_reply
\* (the empty text included) to the sender, does not call the execution service and
\* leaves the stored execution context as it was.
C12_NoCodeSendsDefault ==
    [][(/\ pc = "auto_reply" /\ ~turn.message.has_fc
        /\ Len(turn'.code_blocks) = 1
        /\ turn'.code_blocks[1].lang = UNKNOWN) =>
           /\ pc' = "idle"
           /\ turn'.outcome = "default"
           /\ turn'.sent = <<TextMsg(turn.sender, turn.reply)>>
           /\ turn'.calls = <<>>
           /\ Count(turn'.events, "execute_code") = 0
           /\ use_docker' = use_docker]_vars

C12_Witness ==
    /\ Completed
    /\ turn.outcome = "default"
    /\ turn.code_blocks = Sentinel(turn.message.content)
    /\ turn.sent = <<TextMsg(turn.sender, "")>>
    /\ use_docker # "True"

\* C13: the auto-reply counter is kept per sender: a call of receive for a sender
\* reads that sender's counter only and changes that sender's counter only, whatever
\* the interleaving of calls for different senders.
C13_CounterPerSender ==
    [][/\ \A s \in Senders :
             counter'[s] # counter[s] => (pc = "decide" /\ s = turn.sender)
       /\ (pc = "idle" /\ pc' # "idle") =>
             /\ turn'.counter0 = counter[turn'.sender]
             /\ counter' = counter
       /\ pc # "idle" => turn'.sender = turn.sender]_vars

C13_Witness ==
    /\ Completed
    /\ turn.sender = "A"
    /\ turn.counter0 >= 1
    /\ counter["A"] = 0
    /\ counter["B"] >= 1

\* a step that calls the execution service (lines 125-127 and 134-136)
ServiceCall == pc = "exec" /\ Len(turn'.calls) = Len(turn.calls) + 1
\* the call record of that step
NewCall == turn'.calls[Len(turn'.calls)]

\* C14: the stored execution context handle is kept per sender: with turns of two
\* senders interleaved, the handle passed to the execution service for a block of a
\* sender is one returned by an execution done for that sender (the configured value
\* when nothing has been executed yet), never one returned for another sender.
C14_HandlePerSender ==
    [][ServiceCall => /\ NewCall.use_docker = use_docker
                      /\ handle_owner \in {"", turn.sender}]_vars

\* C15: after each call of the execution service the controller stores the handle the
\* call returned, and the next call, for the next block of the same message or in a
\* later turn, is given that stored handle; no other step changes the stored handle.
C15_HandleThreaded ==
    [][/\ ServiceCall => /\ NewCall.use_docker = use_docker
                         /\ use_docker' = NewCall.image
       /\ ~ServiceCall => use_docker' = use_docker]_vars

C15_Witness ==
    /\ Started
    /\ Len(turn.calls) = 2
    /\ turn.calls[1].use_docker = "img2"
    /\ turn.calls[1].image = "img1"
    /\ turn.calls[2].use_docker = "img1"
    /\ turn.calls[2].image = "img2"
    /\ use_docker = "img2"

\* C16: the sandbox-enable flag is separate from the stored handle: executing code
\* never changes it, and every call of the execution service, in any turn, is made
\* with the flag value configured at construction.
C16_SandboxFlagKept ==
    /\ use_docker = "True"
    /\ \A k \in DOMAIN turn.calls : turn.calls[k].use_docker = "True"

\* the quote at position j toggles the inside-string flag
TogglingQuote(x, j) == x[j] = "\"" /\ (j = 1 \/ x[j - 1] # "\\")
\* position i is inside a string literal (an opening quote is, a closing quote is not)
InsideString(x, i) == Cardinality({j \in 1..i : TogglingQuote(x, j)}) % 2 = 1
\* what the character at position i becomes
ImageOf(x, i) ==
    IF x[i] = "\n" THEN (IF InsideString(x, i) THEN <<"\\", "n">> ELSE <<>>)
    ELSE IF x[i] = "\t" /\ InsideString(x, i) THEN <<"\\", "t">>
    ELSE <<x[i]>>
RECURSIVE ImagesUpTo(_, _)
ImagesUpTo(x, n) == IF n = 0 THEN <<>> ELSE ImagesUpTo(x, n - 1) \o ImageOf(x, n)

ValidSingleLine(x) == json_loads(x).ok /\ \A i \in DOMAIN x : x[i] # "\n"

\* C18: on an argument string that is well-formed JSON on one line (escaped quotes,
\* escaped backslashes and tabs between tokens included) _format_json_str changes
\* nothing, so parsing the normalized text gives what parsing the string gives, and
\* normalizing twice gives what normalizing once gives.
C18_IdempotentOnValidJson ==
    (parser.stage = "parsed" /\ ValidSingleLine(parser.jstr)) =>
        /\ parser.formatted = parser.jstr
        /\ parser.decoded
        /\ parser.args = json_loads(parser.jstr).val
        /\ _format_json_str(parser.formatted) = parser.formatted

\* C19: _execute_function invokes the named method of a registered object, the object
\* itself when the entry gives no method name (and the dispatch succeeds), and a
\* directly registered callable; the same registered object serves every call, so the
\* state it keeps carries over from one dispatch to the next.
C19_CallableResolution ==
    LET method == _execute_function([name |-> "add_num", arguments |-> ArgsObject], given_num)
        object == _execute_function([name |-> "call_obj", arguments |-> ArgsObject], given_num)
        direct == _execute_function([name |-> "add", arguments |-> ArgsObject], given_num)
    IN  /\ method.is_exec_success
        /\ method.result.content = <<ToString(given_num + 5)>>
        /\ method.given_num = given_num + 5
        /\ object.is_exec_success
        /\ object.result.content[1] # "Error: "
        /\ direct.is_exec_success
        /\ direct.result.content = <<ToString(15)>>
        /\ direct.given_num = given_num

\* C20: whatever the extractor returns other than the single sentinel block, the empty
\* list included, auto_reply does not raise and sends exactly one message with the exit
\* code, "execution succeeded" exactly when the exit code is 0 and "execution failed"
\* otherwise, and the logs.
C20_ExecutionResultSent ==
    (InLoop /\ pc = "idle") =>
        /\ turn.outcome = "code"
        /\ Len(turn.sent) = 1
        /\ turn.sent[1].kind = "exec"
        /\ turn.sent[1].to = turn.sender
        /\ turn.sent[1].exec.exitcode2str =
              IF turn.sent[1].exec.exitcode = 0 THEN "execution succeeded"
              ELSE "execution failed"
        /\ turn.sent[1].exec.logs = turn.logs_all

====
